---- MODULE Spec2Model ----
(***************************************************************************)
(* StreamRenderer (src/js/streamRenderer.js, TypeScript twin in            *)
(* src/unnamed/part_000): a text buffer fed by appendChunk, sealed by      *)
(* finish, and shown by a requestAnimationFrame loop.                      *)
(*                                                                         *)
(* Text is a sequence of one-character strings.  The object's fields are   *)
(* the variables of the same names; the browser's list of scheduled frame  *)
(* callbacks is `pending`; the display surface is `container`.  Each       *)
(* method is an operator from a state record to the state record it        *)
(* leaves, so that a handler which calls other methods is their            *)
(* composition, and each action is one whole handler.                      *)
(***************************************************************************)
EXTENDS Integers, Sequences, FiniteSets, TLC

VARIABLES
    options,            \* this.options, fixed at construction
    textBuffer,         \* this.textBuffer
    lastRenderedText,   \* this.lastRenderedText
    rafId,              \* this.rafId (Null or a frame id)
    isFinished,         \* this.isFinished
    textNode,           \* this.textNode (Null or a node id)
    container,          \* the DOM element this.container
    pending,            \* frame callbacks scheduled in the browser
    fx,                 \* what the last handler did, in order
    op,                 \* the last handler that ran
    appended,           \* chunks passed to appendChunk before finish()/destroy()
    finishCalled,       \* finish() was called in this lifecycle
    destroyCalled,      \* destroy() was called in this lifecycle
    nSanitize,          \* sanitizer calls in this lifecycle
    nComplete,          \* onComplete calls in this lifecycle
    completeArg,        \* argument of the last onComplete call in this lifecycle
    burst,              \* chunks passed to appendChunk since the last frame, while Active
    framed,             \* a frame callback has run in this lifecycle
    abandoned,          \* reset() has found a Sealed stream with text in its buffer
    gen,                \* the integration example's generate handler: where it is
    app,                \* the application page: provider, key, inputs, Generate button
    twin,               \* a second instance, constructed when this one was last reset
    returned,           \* what the last handler returned to its caller
    sanIn,              \* a text handed to the default sanitizer
    sanOut              \* what the default sanitizer made of sanIn

vars == <<options, textBuffer, lastRenderedText, rafId, isFinished, textNode,
          container, pending, fx, op, appended, finishCalled, destroyCalled,
          nSanitize, nComplete, completeArg, burst, framed, abandoned, gen, app, twin,
          returned, sanIn, sanOut>>

----------------------------------------------------------------------------
(* Bounds *)

\* longest buffer the chunk source builds
MaxLen == 4
\* longest single chunk
MaxChunk == 1
\* longest text handed to the default sanitizer on its own
MaxText == 6
\* most frame callbacks scheduled at once when a frame fires
MaxFrames == 2
\* longest chunk of a source that splits the text unevenly
MaxSplit == 2
\* number of entries of geminiModels
MaxModels == 2
\* longest text typed into the API key field
MaxKey == 2
\* most testers on the page
MaxTesters == 2

----------------------------------------------------------------------------
(* Text *)

Null == 0

LF == "\n"
Chars == {"A", "-", LF}

RECURSIVE StringsUpTo(_)
StringsUpTo(n) ==
    IF n = 0 THEN {<<>>}
    ELSE LET shorter == StringsUpTo(n - 1)
         IN  shorter \cup {Append(s, c) : s \in {t \in shorter : Len(t) = n - 1}, c \in Chars}

Chunks == StringsUpTo(MaxChunk)

Drop(text, n) == SubSeq(text, n + 1, Len(text))
Take(text, n) == SubSeq(text, 1, n)

\* number of consecutive characters of text, from position i, that are in cls
RECURSIVE Run(_, _, _)
Run(text, i, cls) ==
    IF i <= Len(text) /\ text[i] \in cls THEN 1 + Run(text, i + 1, cls) ELSE 0

LineBreaks == {"\n", "\r"}
Rules == {"-", "="}
Spaces == {" ", "\t", "\n", "\r"}

\* text from position i (1-based) to its end matches [\r\n]+[-=]{3,}[\r\n]*$
MatchesAt(text, i) ==
    LET a == Run(text, i, LineBreaks)
        b == Run(text, i + a, Rules)
        c == Run(text, i + a + b, LineBreaks)
    IN  a >= 1 /\ b >= 3 /\ i + a + b + c = Len(text) + 1

\* String.prototype.trim
trim(text) ==
    LET lead == Run(text, 1, Spaces)
        rest == Drop(text, lead)
        RECURSIVE TrimEnd(_)
        TrimEnd(t) == IF t # <<>> /\ t[Len(t)] \in Spaces
                      THEN TrimEnd(Take(t, Len(t) - 1)) ELSE t
    IN  TrimEnd(rest)

\* text.replace(/[\r\n]+[-=]{3,}[\r\n]*$/g, '').trim(): the leftmost match
\* runs to the end of the text, so at most one match is replaced
defaultSanitize(text) ==
    LET starts == {i \in 1..Len(text) : MatchesAt(text, i)}
        first == CHOOSE i \in starts : \A j \in starts : i <= j
    IN  trim(IF starts = {} THEN text ELSE Take(text, first - 1))

\* a caller-supplied sanitizer that is not idempotent: text => text.slice(0, -1)
chopSanitize(text) == IF text = <<>> THEN text ELSE Take(text, Len(text) - 1)

Sanitizers == {"default", "chop"}

\* this.options.sanitize(text)
sanitize(text) ==
    IF options.sanitize = "default" THEN defaultSanitize(text) ELSE chopSanitize(text)

\* a caller-supplied sanitizer may throw; the "throws" sanitizer does on every text
sanitizeThrows(text) == options.sanitize = "throws"

\* this.options.markdownParser(text): the default is (text) => text, a
\* caller-supplied parser wraps the text in markup
markdownParser(text) ==
    IF options.markdownParser = "default" THEN text ELSE <<"<p>">> \o text \o <<"</p>">>

\* a caller-supplied parser may throw on text that is incomplete markup; the
\* "strict" parser throws on text that ends inside a rule ("-" last)
markdownParserThrows(text) ==
    options.markdownParser = "strict" /\ text # <<>> /\ text[Len(text)] = "-"

\* the option sets a caller constructs the renderer with; createMarkdownStreamRenderer
\* is the useTextNode: false case
OptionSets ==
    {[sanitize |-> s, useTextNode |-> TRUE, markdownParser |-> "default",
      onUpdate |-> "observer", onComplete |-> "observer"] : s \in Sanitizers}
    \cup {[sanitize |-> "default", useTextNode |-> FALSE, markdownParser |-> "marked",
           onUpdate |-> "observer", onComplete |-> "observer"],
          [sanitize |-> "chop", useTextNode |-> FALSE, markdownParser |-> "strict",
           onUpdate |-> "observer", onComplete |-> "observer"]}

\* option sets whose callbacks call back into the renderer or fail
HookOptionSets ==
    {[sanitize |-> "default", useTextNode |-> TRUE, markdownParser |-> "default",
      onUpdate |-> u, onComplete |-> "observer"] : u \in {"destroy", "reset", "throw"}}
    \cup {[sanitize |-> "default", useTextNode |-> TRUE, markdownParser |-> "default",
           onUpdate |-> "observer", onComplete |-> "reset"],
          [sanitize |-> "throws", useTextNode |-> TRUE, markdownParser |-> "default",
           onUpdate |-> "observer", onComplete |-> "observer"],
          [sanitize |-> "default", useTextNode |-> FALSE, markdownParser |-> "marked",
           onUpdate |-> "destroy", onComplete |-> "observer"]}

----------------------------------------------------------------------------
(* The renderer's state as one record, and its methods *)

\* F applied to the value of x: the statements F after the statements x
Then(x, F(_)) == CHOOSE r \in {F(v) : v \in {x}} : TRUE

Self ==
    [textBuffer |-> textBuffer, lastRenderedText |-> lastRenderedText,
     rafId |-> rafId, isFinished |-> isFinished, textNode |-> textNode,
     container |-> container, pending |-> pending, fx |-> <<>>]

\* one entry of fx: what happened, with which text, and what the snapshot,
\* the display surface and the number of scheduled frames were at that moment
Event(s, kind, text) ==
    [e |-> kind, text |-> text, snap |-> s.lastRenderedText, shown |-> s.container,
     scheduled |-> Cardinality(s.pending)]

Emit(s, kind, text) == [s EXCEPT !.fx = Append(@, Event(s, kind, text))]

\* requestAnimationFrame(cb): a frame id no live reference holds
requestAnimationFrame(s) ==
    CHOOSE id \in 1..(Cardinality(s.pending) + 2) :
        /\ id \notin s.pending \cup {s.rafId}
        /\ \A j \in 1..(id - 1) : j \in s.pending \cup {s.rafId}

\* cancelAnimationFrame(id): no effect when id is not scheduled
cancelAnimationFrame(s, id) == [s EXCEPT !.pending = @ \ {id}]

\* document.createTextNode(''): a node other than the one still referenced
createTextNode(s) == IF s.textNode = 1 THEN 2 ELSE 1

initializeContainer(s) ==
    LET cleared == [s.container EXCEPT
                      !.kind = "empty", !.node = Null, !.text = <<>>,
                      !.contain = IF @ = "" THEN "content" ELSE @,
                      !.willChange = IF @ = "" THEN "contents" ELSE @]
        node == createTextNode(s)
    IN  IF options.useTextNode
        THEN [s EXCEPT !.textNode = node,
                       !.container = [cleared EXCEPT !.kind = "textNode", !.node = node]]
        ELSE [s EXCEPT !.container = cleared]




\* renderToDOM that writes only the text added since the last render
renderToDOM_delta(s) ==
    Then([s EXCEPT !.container =
            LET added == Drop(s.textBuffer, Len(s.lastRenderedText))
            IN  IF options.useTextNode /\ s.textNode # Null
                THEN IF @.node = s.textNode THEN [@ EXCEPT !.text = added] ELSE @
                ELSE IF markdownParserThrows(s.textBuffer)
                     THEN [@ EXCEPT !.kind = "text", !.node = Null, !.text = added]
                     ELSE [@ EXCEPT !.kind = "html", !.node = Null,
                                    !.text = markdownParser(added)]],
         LAMBDA t : Emit(t, "render", t.textBuffer))

\* renderToDOM that puts a new text node under the container on every render
renderToDOM_recreate(s) ==
    Then([s EXCEPT !.container =
            IF options.useTextNode /\ s.textNode # Null
            THEN [@ EXCEPT !.node = createTextNode(s), !.text = s.textBuffer]
            ELSE IF markdownParserThrows(s.textBuffer)
                 THEN [@ EXCEPT !.kind = "text", !.node = Null, !.text = s.textBuffer]
                 ELSE [@ EXCEPT !.kind = "html", !.node = Null,
                                !.text = markdownParser(s.textBuffer)],
                  !.textNode = IF options.useTextNode /\ s.textNode # Null
                               THEN createTextNode(s) ELSE @],
         LAMBDA t : Emit(t, "render", t.textBuffer))

\* renderToDOM whose catch block swallows the parser's failure without the
\* plain-text fallback
renderToDOM_noFallback(s) ==
    Then([s EXCEPT !.container =
            IF options.useTextNode /\ s.textNode # Null
            THEN IF @.node = s.textNode THEN [@ EXCEPT !.text = s.textBuffer] ELSE @
            ELSE IF markdownParserThrows(s.textBuffer)
                 THEN @
                 ELSE [@ EXCEPT !.kind = "html", !.node = Null,
                                !.text = markdownParser(s.textBuffer)]],
         LAMBDA t : Emit(t, "render", t.textBuffer))

\* renderToDOM that writes the previous snapshot instead of the buffer
renderToDOM_stale(s) ==
    Then([s EXCEPT !.container =
            IF options.useTextNode /\ s.textNode # Null
            THEN IF @.node = s.textNode THEN [@ EXCEPT !.text = s.lastRenderedText] ELSE @
            ELSE IF markdownParserThrows(s.lastRenderedText)
                 THEN [@ EXCEPT !.kind = "text", !.node = Null, !.text = s.lastRenderedText]
                 ELSE [@ EXCEPT !.kind = "html", !.node = Null,
                                !.text = markdownParser(s.lastRenderedText)]],
         LAMBDA t : Emit(t, "render", t.lastRenderedText))

renderToDOM(s) ==
    Then([s EXCEPT !.container =
            IF options.useTextNode /\ s.textNode # Null
            THEN IF @.node = s.textNode THEN [@ EXCEPT !.text = s.textBuffer] ELSE @
            ELSE IF markdownParserThrows(s.textBuffer)
                 THEN [@ EXCEPT !.kind = "text", !.node = Null, !.text = s.textBuffer]
                 ELSE [@ EXCEPT !.kind = "html", !.node = Null,
                                !.text = markdownParser(s.textBuffer)]],
         LAMBDA t : Emit(t, "render", t.textBuffer))


\* this.rafId = requestAnimationFrame(render)
scheduleRender(s) ==
    Then(requestAnimationFrame(s),
         LAMBDA id : [s EXCEPT !.pending = @ \cup {id}, !.rafId = id])

startRenderLoop(s) == scheduleRender(s)



\* reset that starts the new loop without cancelling the scheduled frame
reset_noCancel(s) ==
    Then(Then([s EXCEPT !.textBuffer = <<>>, !.lastRenderedText = <<>>,
                        !.isFinished = FALSE],
              initializeContainer),
         startRenderLoop)

\* reset that leaves the container as the last lifecycle left it
reset_noInit(s) ==
    Then(IF s.rafId # Null
         THEN [cancelAnimationFrame(s, s.rafId) EXCEPT !.rafId = Null]
         ELSE s,
         LAMBDA t :
             Then([t EXCEPT !.textBuffer = <<>>, !.lastRenderedText = <<>>,
                            !.isFinished = FALSE],
                  startRenderLoop))

reset(s) ==
    Then(IF s.rafId # Null
         THEN [cancelAnimationFrame(s, s.rafId) EXCEPT !.rafId = Null]
         ELSE s,
         LAMBDA t :
             Then(Then([t EXCEPT !.textBuffer = <<>>, !.lastRenderedText = <<>>,
                                 !.isFinished = FALSE],
                       initializeContainer),
                  startRenderLoop))


\* this.options.onComplete(text): an observer, or a callback that starts the
\* next stream on the same instance with reset()
onComplete(s, text) ==
    Then(Emit(s, "onComplete", text),
         LAMBDA t : IF options.onComplete = "reset"
                    THEN Then(Emit(t, "reset", <<>>), reset)
                    ELSE t)

\* cleanup that cancels the frame but keeps its id in rafId
cleanup_keepRafId(s) ==
    Then(IF s.rafId # Null THEN cancelAnimationFrame(s, s.rafId) ELSE s,
         LAMBDA t : onComplete(t, t.textBuffer))

cleanup(s) ==
    Then(IF s.rafId # Null
         THEN [cancelAnimationFrame(s, s.rafId) EXCEPT !.rafId = Null]
         ELSE s,
         LAMBDA t : onComplete(t, t.textBuffer))


\* destroy that also frees the buffer
destroy_clearBuffer(s) ==
    Then(IF s.rafId # Null
         THEN [cancelAnimationFrame(s, s.rafId) EXCEPT !.rafId = Null]
         ELSE s,
         LAMBDA t : [t EXCEPT !.textNode = Null, !.isFinished = TRUE, !.textBuffer = <<>>])

\* destroy that forgets to set isFinished
destroy_noFlag(s) ==
    Then(IF s.rafId # Null
         THEN [cancelAnimationFrame(s, s.rafId) EXCEPT !.rafId = Null]
         ELSE s,
         LAMBDA t : [t EXCEPT !.textNode = Null])

\* destroy that leaves the scheduled frame callback in place
destroy_noCancel(s) ==
    [s EXCEPT !.rafId = Null, !.textNode = Null, !.isFinished = TRUE]

\* destroy that tears down through cleanup(), which reports completion
destroy_cleanup(s) ==
    Then(cleanup(s), LAMBDA t : [t EXCEPT !.textNode = Null, !.isFinished = TRUE])

destroy(s) ==
    Then(IF s.rafId # Null
         THEN [cancelAnimationFrame(s, s.rafId) EXCEPT !.rafId = Null]
         ELSE s,
         LAMBDA t : [t EXCEPT !.textNode = Null, !.isFinished = TRUE])


\* this.options.onUpdate(text): an observer, or a callback that tears the
\* renderer down with destroy(), restarts it with reset(), or fails
onUpdate(s, text) ==
    Then(Emit(s, "onUpdate", text),
         LAMBDA t : CASE options.onUpdate = "destroy" -> Then(Emit(t, "destroy", <<>>), destroy)
                      [] options.onUpdate = "reset" -> Then(Emit(t, "reset", <<>>), reset)
                      [] options.onUpdate = "throw" -> Emit(t, "throw", <<>>)
                      [] OTHER -> t)

\* the last call made so far ended by throwing
Threw(s) == s.fx # <<>> /\ s.fx[Len(s.fx)].e = "throw"




\* a render closure that reports completion before the terminal render
render_completeFirst(s) ==
    Then(IF s.textBuffer # s.lastRenderedText
         THEN Then([renderToDOM(s) EXCEPT !.lastRenderedText = s.textBuffer],
                   LAMBDA u : onUpdate(u, u.textBuffer))
         ELSE s,
         LAMBDA t : IF Threw(t) THEN t
                    ELSE IF ~t.isFinished
                    THEN scheduleRender(t)
                    ELSE Then(cleanup(t), renderToDOM))

\* a render closure that renders without recording what it rendered
render_noSnapshot(s) ==
    Then(IF s.textBuffer # s.lastRenderedText
         THEN Then(renderToDOM(s), LAMBDA u : onUpdate(u, u.textBuffer))
         ELSE s,
         LAMBDA t : IF Threw(t) THEN t
                    ELSE IF ~t.isFinished
                    THEN scheduleRender(t)
                    ELSE Then(renderToDOM(t), cleanup))

\* a render closure that stops the loop in a frame that had nothing to render
render_idleStop(s) ==
    IF s.textBuffer # s.lastRenderedText
    THEN Then(Then([renderToDOM(s) EXCEPT !.lastRenderedText = s.textBuffer],
                   LAMBDA u : onUpdate(u, u.textBuffer)),
              LAMBDA t : IF Threw(t) THEN t
                         ELSE IF ~t.isFinished
                         THEN scheduleRender(t)
                         ELSE Then(renderToDOM(t), cleanup))
    ELSE IF ~s.isFinished THEN s ELSE Then(renderToDOM(s), cleanup)

\* a render closure that stops scheduling when finished but leaves out the
\* final render and cleanup
render_noTerminal(s) ==
    Then(IF s.textBuffer # s.lastRenderedText
         THEN Then([renderToDOM(s) EXCEPT !.lastRenderedText = s.textBuffer],
                   LAMBDA u : onUpdate(u, u.textBuffer))
         ELSE s,
         LAMBDA t : IF Threw(t) THEN t
                    ELSE IF ~t.isFinished THEN scheduleRender(t) ELSE t)

\* a render closure that skips the final render when finished
render_noFinalRender(s) ==
    Then(IF s.textBuffer # s.lastRenderedText
         THEN Then([renderToDOM(s) EXCEPT !.lastRenderedText = s.textBuffer],
                   LAMBDA u : onUpdate(u, u.textBuffer))
         ELSE s,
         LAMBDA t : IF Threw(t) THEN t
                    ELSE IF ~t.isFinished THEN scheduleRender(t) ELSE cleanup(t))

\* a render closure that calls onUpdate in every frame
render_alwaysUpdate(s) ==
    Then(Then(IF s.textBuffer # s.lastRenderedText
              THEN [renderToDOM(s) EXCEPT !.lastRenderedText = s.textBuffer]
              ELSE s,
              LAMBDA u : onUpdate(u, u.textBuffer)),
         LAMBDA t : IF Threw(t) THEN t
                    ELSE IF ~t.isFinished
                    THEN scheduleRender(t)
                    ELSE Then(renderToDOM(t), cleanup))

\* the closure `render` of startRenderLoop, run by the browser for one frame;
\* an exception thrown by onUpdate ends it there
render(s) ==
    Then(IF s.textBuffer # s.lastRenderedText
         THEN Then([renderToDOM(s) EXCEPT !.lastRenderedText = s.textBuffer],
                   LAMBDA u : onUpdate(u, u.textBuffer))
         ELSE s,
         LAMBDA t : IF Threw(t) THEN t
                    ELSE IF ~t.isFinished
                    THEN scheduleRender(t)
                    ELSE Then(renderToDOM(t), cleanup))


\* appendChunk that accepts the chunk of a finished renderer by reopening it
appendChunk_reopen(s, chunk) ==
    [s EXCEPT !.isFinished = FALSE, !.textBuffer = @ \o chunk]

\* appendChunk that puts the chunk in front of the buffer
appendChunk_prepend(s, chunk) ==
    IF s.isFinished
    THEN Emit(s, "warn", <<>>)
    ELSE [s EXCEPT !.textBuffer = chunk \o @]

\* appendChunk without the isFinished guard
appendChunk_noGuard(s, chunk) == [s EXCEPT !.textBuffer = @ \o chunk]

\* appendChunk that sanitizes the buffer after every chunk
appendChunk_sanitizing(s, chunk) ==
    IF s.isFinished
    THEN Emit(s, "warn", <<>>)
    ELSE Then(Emit([s EXCEPT !.textBuffer = @ \o chunk], "sanitize", s.textBuffer \o chunk),
              LAMBDA t : [t EXCEPT !.textBuffer = sanitize(t.textBuffer)])

appendChunk(s, chunk) ==
    IF s.isFinished
    THEN Emit(s, "warn", <<>>)
    ELSE [s EXCEPT !.textBuffer = @ \o chunk]


\* finish that renders the sanitized buffer at once instead of leaving it to
\* the render loop
finish_rendering(s) ==
    IF s.isFinished
    THEN s
    ELSE Then(Emit([s EXCEPT !.isFinished = TRUE], "sanitize", s.textBuffer),
              LAMBDA t : IF sanitizeThrows(t.textBuffer)
                         THEN Emit(t, "throw", <<>>)
                         ELSE renderToDOM([t EXCEPT !.textBuffer = sanitize(t.textBuffer)]))

\* finish without the isFinished guard
finish_noGuard(s) ==
    Then(Emit([s EXCEPT !.isFinished = TRUE], "sanitize", s.textBuffer),
         LAMBDA t : IF sanitizeThrows(t.textBuffer)
                    THEN Emit(t, "throw", <<>>)
                    ELSE [t EXCEPT !.textBuffer = sanitize(t.textBuffer)])

finish_sanitizeTail(s) ==
    IF s.isFinished
    THEN s
    ELSE Then(Emit([s EXCEPT !.isFinished = TRUE], "sanitize", s.textBuffer),
              LAMBDA t : IF sanitizeThrows(t.textBuffer)
                         THEN Emit(t, "throw", <<>>)
                         ELSE [t EXCEPT !.textBuffer =
                                  t.lastRenderedText
                                      \o sanitize(Drop(t.textBuffer, Len(t.lastRenderedText)))])

\* a sanitizer that throws leaves the assignment to textBuffer undone
finish(s) ==
    IF s.isFinished
    THEN s
    ELSE Then(Emit([s EXCEPT !.isFinished = TRUE], "sanitize", s.textBuffer),
              LAMBDA t : IF sanitizeThrows(t.textBuffer)
                         THEN Emit(t, "throw", <<>>)
                         ELSE [t EXCEPT !.textBuffer = sanitize(t.textBuffer)])


\* getCurrentText that returns what is displayed
getCurrentText_displayed(s) == s.lastRenderedText

getCurrentText(s) == s.textBuffer


\* the fields before the constructor body runs, on a surface that still shows
\* earlier output
Fresh ==
    [textBuffer |-> <<>>, lastRenderedText |-> <<>>, rafId |-> Null,
     isFinished |-> FALSE, textNode |-> Null,
     container |-> [kind |-> "html", node |-> Null, text |-> <<"A">>,
                    contain |-> "", willChange |-> ""],
     pending |-> {}, fx |-> <<>>]


\* a constructor that starts the loop on the container as it found it
constructor_noInit == startRenderLoop(Fresh)

constructor == Then(initializeContainer(Fresh), startRenderLoop)

----------------------------------------------------------------------------
(* Actions: one per handler *)

\* the entries of fx of one kind
Of(events, kind) == SelectSeq(events, LAMBDA ev : ev.e = kind)

Min(a, b) == IF a < b THEN a ELSE b

NoText == <<"none">>

\* the state a handler leaves, and the calls it made
Assign(s) ==
    /\ textBuffer' = s.textBuffer
    /\ lastRenderedText' = s.lastRenderedText
    /\ rafId' = s.rafId
    /\ isFinished' = s.isFinished
    /\ textNode' = s.textNode
    /\ container' = s.container
    /\ pending' = s.pending
    /\ fx' = s.fx
    /\ options' = options

\* the handler's assignments, for a handler that returns nothing, on the only
\* instance there is
Commit(s) ==
    /\ Assign(s)
    /\ returned' = NoText
    /\ UNCHANGED <<abandoned, gen, app, twin, sanIn, sanOut>>

\* the per-lifecycle counts, continued by the calls of this handler; a count
\* of 2 stands for "more than once"
Count(s) ==
    /\ nSanitize' = Min(2, nSanitize + Len(Of(s.fx, "sanitize")))
    /\ nComplete' = Min(2, nComplete + Len(Of(s.fx, "onComplete")))
    /\ completeArg' = IF Of(s.fx, "onComplete") = <<>> THEN completeArg
                      ELSE Of(s.fx, "onComplete")[Len(Of(s.fx, "onComplete"))].text

Construct ==
    /\ textBuffer = constructor.textBuffer
    /\ lastRenderedText = constructor.lastRenderedText
    /\ rafId = constructor.rafId
    /\ isFinished = constructor.isFinished
    /\ textNode = constructor.textNode
    /\ container = constructor.container
    /\ pending = constructor.pending
    /\ fx = constructor.fx
    /\ op = "constructor"
    /\ appended = <<>>
    /\ finishCalled = FALSE
    /\ destroyCalled = FALSE
    /\ nSanitize = 0
    /\ nComplete = 0
    /\ completeArg = NoText
    /\ burst = <<>>
    /\ framed = FALSE
    /\ abandoned = FALSE
    /\ returned = NoText

\* no generate handler
NoHandler == [pc |-> "none", model |-> 0, attempt |-> <<>>, finishes |-> 0,
              streamSuccess |-> FALSE]

\* no application page
NoPage == [apiProvider |-> "none"]

\* the renderer on its own: no generate handler and no application page
Alone == gen = NoHandler /\ app = NoPage

Init ==
    /\ options \in OptionSets
    /\ Construct
    /\ Alone
    /\ twin = Fresh
    /\ sanIn = NoText
    /\ sanOut = NoText

\* the chunk source calls appendChunk(chunk)
AppendChunk ==
    \E chunk \in Chunks :
        \E s \in {appendChunk(Self, chunk)} :
            /\ Len(s.textBuffer) <= MaxLen
            /\ Commit(s) /\ Count(s)
            /\ op' = "appendChunk"
            /\ appended' = IF finishCalled \/ destroyCalled THEN appended
                           ELSE appended \o chunk
            /\ burst' = IF finishCalled \/ destroyCalled THEN burst
                        ELSE burst \o chunk
            /\ UNCHANGED <<finishCalled, destroyCalled, framed>>

\* the chunk source calls finish()
Finish ==
    \E s \in {finish(Self)} :
        /\ Commit(s) /\ Count(s)
        /\ op' = "finish"
        /\ finishCalled' = TRUE
        /\ UNCHANGED <<appended, destroyCalled, burst, framed>>

\* the ghost variables at the start of a lifecycle
NewLifecycle ==
    /\ appended' = <<>>
    /\ finishCalled' = FALSE
    /\ destroyCalled' = FALSE
    /\ nSanitize' = 0
    /\ nComplete' = 0
    /\ completeArg' = NoText
    /\ burst' = <<>>
    /\ framed' = FALSE

\* the browser runs one scheduled frame callback; a callback of that frame
\* may have called reset() or destroy()
Frame ==
    \E id \in pending :
        \E s \in {render([Self EXCEPT !.pending = @ \ {id}])} :
            /\ Cardinality(pending) <= MaxFrames
            /\ Commit(s)
            /\ op' = "frame"
            /\ IF Of(s.fx, "reset") # <<>>
               THEN NewLifecycle
               ELSE /\ Count(s)
                    /\ burst' = <<>>
                    /\ framed' = TRUE
                    /\ destroyCalled' = (destroyCalled \/ Of(s.fx, "destroy") # <<>>)
                    /\ UNCHANGED <<appended, finishCalled>>

\* the owner calls reset(): a new lifecycle
Reset ==
    \E s \in {reset(Self)} :
        /\ Commit(s)
        /\ op' = "reset"
        /\ NewLifecycle

\* the owner calls destroy()
Destroy ==
    \E s \in {destroy(Self)} :
        /\ Commit(s) /\ Count(s)
        /\ op' = "destroy"
        /\ destroyCalled' = TRUE
        /\ UNCHANGED <<appended, finishCalled, burst, framed>>

Next == AppendChunk \/ Finish \/ Frame \/ Reset \/ Destroy


----------------------------------------------------------------------------
(* Two instances side by side: `twin` is constructed anew, with the same
   options and on a container of its own, whenever this instance is reset;
   from then on both receive the same calls and the same frames *)

\* the assignments of one handler run on this instance and on the twin
Both(s, t, name) ==
    /\ Assign(s)
    /\ twin' = t
    /\ op' = name
    /\ returned' = NoText
    /\ UNCHANGED <<appended, finishCalled, destroyCalled, nSanitize, nComplete,
                   completeArg, burst, framed, abandoned, gen, app, sanIn, sanOut>>

\* the twin as a handler finds it: no call made yet
Twin == [twin EXCEPT !.fx = <<>>]

TwinInit ==
    /\ options \in OptionSets
    /\ Construct
    /\ Alone
    /\ twin = constructor
    /\ sanIn = NoText
    /\ sanOut = NoText

TwinAppendChunk ==
    \E chunk \in Chunks :
        \E s \in {appendChunk(Self, chunk)} :
            \E t \in {appendChunk(Twin, chunk)} :
                /\ Len(s.textBuffer) <= MaxLen
                /\ Both(s, t, "appendChunk")

TwinFinish ==
    \E s \in {finish(Self)} :
        \E t \in {finish(Twin)} :
            Both(s, t, "finish")

\* the browser runs the frame callbacks the two instances have scheduled
TwinFrame ==
    \E id \in pending :
        \E j \in twin.pending \cup {Null} :
            /\ j = Null <=> twin.pending = {}
            /\ \E s \in {render([Self EXCEPT !.pending = @ \ {id}])} :
                   \E t \in {IF j = Null THEN Twin
                             ELSE render([Twin EXCEPT !.pending = @ \ {j}])} :
                       Both(s, t, "frame")

\* this instance is reset, the twin is constructed
TwinReset ==
    \E s \in {reset(Self)} :
        Both(s, constructor, "reset")

TwinDestroy ==
    \E s \in {destroy(Self)} :
        \E t \in {destroy(Twin)} :
            Both(s, t, "destroy")

TwinNext == TwinAppendChunk \/ TwinFinish \/ TwinFrame \/ TwinReset \/ TwinDestroy


\* the owner calls getCurrentText()
GetCurrentText ==
    /\ returned' = getCurrentText(Self)
    /\ Assign(Self)
    /\ op' = "getCurrentText"
    /\ UNCHANGED <<appended, finishCalled, destroyCalled, nSanitize, nComplete,
                   completeArg, burst, framed, abandoned, gen, app, twin, sanIn,
                   sanOut>>

AccessNext == AppendChunk \/ Finish \/ Frame \/ Reset \/ Destroy \/ GetCurrentText

\* the renderer with an owner that also reads the text back
AccessSpec == Init /\ [][AccessNext]_vars


----------------------------------------------------------------------------
(* The default sanitizer on its own, as a pure function of its argument *)

SanChars == {"A", "-", "=", " ", LF}

RECURSIVE SanTexts(_)
SanTexts(n) ==
    IF n = 0 THEN {<<>>}
    ELSE LET shorter == SanTexts(n - 1)
         IN  shorter \cup {Append(s, c) : s \in {t \in shorter : Len(t) = n - 1},
                                          c \in SanChars}

SanInit ==
    /\ options \in OptionSets
    /\ Construct
    /\ Alone
    /\ options.sanitize = "default" /\ options.useTextNode
    /\ twin = Fresh
    /\ sanIn \in SanTexts(MaxText)
    /\ sanOut = NoText

\* options.sanitize(text) with the default options
Sanitize ==
    /\ sanOut = NoText
    /\ sanOut' = defaultSanitize(sanIn)
    /\ UNCHANGED <<options, textBuffer, lastRenderedText, rafId, isFinished, textNode,
                   container, pending, fx, op, appended, finishCalled, destroyCalled,
                   nSanitize, nComplete, completeArg, burst, framed, abandoned, gen, app,
                   twin, returned, sanIn>>

SanNext == Sanitize

SanSpec == SanInit /\ [][SanNext]_vars

TwinSpec == TwinInit /\ [][TwinNext]_vars

Spec == Init /\ [][Next]_vars

\* the owner abandons a Sealed stream that has text with reset()
ResetSealed ==
    /\ isFinished /\ pending # {} /\ textBuffer # <<>>
    /\ \E s \in {reset(Self)} :
           /\ Assign(s)
           /\ op' = "reset"
           /\ NewLifecycle
           /\ abandoned' = TRUE
           /\ returned' = NoText
           /\ UNCHANGED <<gen, app, twin, sanIn, sanOut>>

AbandonNext == AppendChunk \/ Finish \/ Frame \/ Reset \/ Destroy \/ ResetSealed

\* the renderer with an owner whose resets of a Sealed stream are recorded
AbandonSpec == Init /\ [][AbandonNext]_vars

\* the chunks longer than those of Chunks
Splits == StringsUpTo(MaxSplit) \ Chunks

\* the chunk source calls appendChunk(chunk) with a longer chunk: with
\* AppendChunk, a source that delivers the text in pieces of unequal length
AppendSplit ==
    \E chunk \in Splits :
        \E s \in {appendChunk(Self, chunk)} :
            /\ Len(s.textBuffer) <= MaxLen
            /\ Commit(s) /\ Count(s)
            /\ op' = "appendChunk"
            /\ appended' = IF finishCalled \/ destroyCalled THEN appended
                           ELSE appended \o chunk
            /\ burst' = IF finishCalled \/ destroyCalled THEN burst
                        ELSE burst \o chunk
            /\ UNCHANGED <<finishCalled, destroyCalled, framed>>

SplitNext == AppendChunk \/ AppendSplit \/ Finish \/ Frame \/ Reset \/ Destroy

\* the renderer fed by a source that splits the text unevenly
SplitSpec == Init /\ [][SplitNext]_vars

----------------------------------------------------------------------------
(* The generate handler of the integration example: it constructs a
   renderer in its first statements and then streams into it; every await of
   the handler is a point where scheduled frames may run *)

\* the options of line 86-114: HTML rendering, a parser that catches its own
\* failures, the example's sanitizer, callbacks that do not touch the renderer
GenOptions ==
    [sanitize |-> "default", useTextNode |-> FALSE, markdownParser |-> "marked",
     onUpdate |-> "observer", onComplete |-> "observer"]

\* output.innerHTML = markup, written by the handler itself
innerHTML(s, markup) ==
    [s EXCEPT !.container = [@ EXCEPT !.kind = IF markup = <<>> THEN "empty" ELSE "html",
                                      !.node = Null, !.text = markup]]

\* the handler after `new StreamRenderer(output, {...})`, entering its try
GenInit ==
    /\ options = GenOptions
    /\ Construct
    /\ gen = [pc |-> "try", model |-> 0, attempt |-> <<>>, finishes |-> 0,
              streamSuccess |-> FALSE]
    /\ app = NoPage
    /\ twin = Fresh
    /\ sanIn = NoText
    /\ sanOut = NoText

\* the state one step of the handler leaves
GenStep(s, g, name) ==
    /\ Assign(s) /\ Count(s)
    /\ gen' = g
    /\ op' = name
    /\ returned' = NoText
    /\ UNCHANGED <<destroyCalled, framed, abandoned, app, twin, sanIn, sanOut>>

\* catch (err) { lastError = err; continue; } and, after the last model,
\* the throw of line 214, the outer catch and the finally block
NextModel(g) ==
    IF g.model < MaxModels
    THEN [g EXCEPT !.model = @ + 1, !.pc = "fetch"]
    ELSE [g EXCEPT !.pc = "done"]

\* lines 123-128: the Gemini branch shows its placeholder and enters the
\* model loop (the example gives the code of no other provider)
GenProvider ==
    /\ gen.pc = "try"
    /\ GenStep(innerHTML(Self, <<"Connecting">>),
               [gen EXCEPT !.pc = "fetch", !.model = 1], "generate")
    /\ UNCHANGED <<appended, finishCalled, burst>>

\* lines 145-161: the fetch of one model resolves; a response that is not ok,
\* or a fetch that rejects, goes to the catch of line 208
GenFetch ==
    /\ gen.pc = "fetch"
    /\ \E ok \in BOOLEAN :
           IF ok
           THEN GenStep(innerHTML(Self, <<>>),
                        [gen EXCEPT !.pc = "read", !.attempt = <<>>], "generate")
           ELSE GenStep(Self, NextModel(gen), "generate")
    /\ UNCHANGED <<appended, finishCalled, burst>>

\* lines 164-200: reader.read() resolves with data; its text, when there is
\* any, goes to appendChunk
GenRead ==
    /\ gen.pc = "read"
    /\ \E newText \in Chunks :
           \E s \in {IF newText # <<>> THEN appendChunk(Self, newText) ELSE Self} :
               /\ Len(s.textBuffer) <= MaxLen
               /\ GenStep(s, [gen EXCEPT !.attempt = @ \o newText], "appendChunk")
               /\ appended' = appended \o newText
               /\ burst' = burst \o newText
    /\ UNCHANGED finishCalled

\* lines 165, 203-206: reader.read() resolves with done; finish(), then the
\* handler leaves the loop and returns through its finally block
GenDone ==
    /\ gen.pc = "read"
    /\ GenStep(finish(Self),
               [gen EXCEPT !.pc = "done", !.finishes = @ + 1, !.streamSuccess = TRUE],
               "finish")
    /\ finishCalled' = TRUE
    /\ UNCHANGED <<appended, burst>>

\* line 164: reader.read() rejects in the middle of the stream
GenReadFail ==
    /\ gen.pc = "read"
    /\ GenStep(Self, NextModel(gen), "generate")
    /\ UNCHANGED <<appended, finishCalled, burst>>

\* the handler's steps, and the frames the browser runs at its awaits and
\* after it returned
GenNext == GenProvider \/ GenFetch \/ GenRead \/ GenDone \/ GenReadFail \/ Frame

\* one click on Generate with the Gemini provider selected
GenSpec == GenInit /\ [][GenNext]_vars

----------------------------------------------------------------------------
(* The application page: the provider select, the API key field and its Save
   button, the file input, the tester list and the Generate button *)

\* what a key is made of: each provider's key prefix as one unit, and a blank
KeyChars == {"AIza", "sk-", " "}

RECURSIVE KeyTexts(_)
KeyTexts(n) ==
    IF n = 0 THEN {<<>>}
    ELSE LET shorter == KeyTexts(n - 1)
         IN  shorter \cup {Append(k, c) : k \in {t \in shorter : Len(t) = n - 1},
                                          c \in KeyChars}

\* key.startsWith(prefix)
startsWith(key, prefix) == key # <<>> /\ key[1] = prefix

providers ==
    [openai |-> [name |-> "OpenAI", keyPrefix |-> "sk-"],
     gemini |-> [name |-> "Google Gemini", keyPrefix |-> "AIza"]]

\* provider.validate(key)
validate(provider, key) == startsWith(key, provider.keyPrefix)

validateApiKey(key, provider) ==
    IF key = <<>> THEN FALSE ELSE validate(provider, key)

\* sessionStorage of a new tab
NoStorage == [ai_provider |-> "none", openai |-> NoText, gemini |-> NoText]

\* sessionStorage.getItem(`${apiProvider}_api_key`) || ''
getItem(storage, apiProvider) ==
    IF storage[apiProvider] = NoText THEN <<>> ELSE storage[apiProvider]

checkGenerateButtonState(a) ==
    LET hasFile == a.files > 0
        hasApiKey == Len(trim(a.apiKey)) > 0
        hasTesters == a.testers > 0
    IN  [a EXCEPT !.disabled = ~(hasFile /\ hasApiKey /\ hasTesters)]

\* the DOMContentLoaded handler on a page with this sessionStorage
DOMContentLoaded(storage) ==
    LET apiProvider == IF storage.ai_provider = "none" THEN "gemini"
                       ELSE storage.ai_provider
        apiKey == getItem(storage, apiProvider)
    IN  checkGenerateButtonState(
            [apiProvider |-> apiProvider, apiKey |-> apiKey, input |-> apiKey,
             storage |-> storage, files |-> 0, testers |-> 0, disabled |-> TRUE])

\* everything but the page: its handlers do not involve the renderer
offPage ==
    <<options, textBuffer, lastRenderedText, rafId, isFinished, textNode, container,
      pending, fx, op, appended, finishCalled, destroyCalled, nSanitize, nComplete,
      completeArg, burst, framed, abandoned, gen, twin, returned, sanIn, sanOut>>

AppInit ==
    /\ options = GenOptions
    /\ Construct
    /\ gen = NoHandler
    /\ app = DOMContentLoaded(NoStorage)
    /\ twin = Fresh
    /\ sanIn = NoText
    /\ sanOut = NoText

\* the user picks another provider in the select
ProviderChange ==
    \E value \in {"openai", "gemini"} :
        /\ app' = LET storage == [app.storage EXCEPT !.ai_provider = value]
                      apiKey == getItem(storage, value)
                  IN  checkGenerateButtonState(
                          [app EXCEPT !.apiProvider = value, !.storage = storage,
                                      !.apiKey = apiKey, !.input = apiKey])
        /\ UNCHANGED offPage

\* the user edits the API key field; the handler only updates the hint
KeyInput ==
    \E value \in KeyTexts(MaxKey) :
        /\ value # app.input
        /\ app' = [app EXCEPT !.input = value]
        /\ UNCHANGED offPage

\* the user clicks Save
SaveKey ==
    /\ app' = LET apiKey == trim(app.input)
                  a == [app EXCEPT !.apiKey = apiKey]
              IN  IF apiKey = <<>>
                  THEN a
                  ELSE IF ~validateApiKey(apiKey, providers[app.apiProvider])
                  THEN a
                  ELSE checkGenerateButtonState(
                           [a EXCEPT !.storage[app.apiProvider] = apiKey,
                                     !.storage.ai_provider = app.apiProvider])
    /\ UNCHANGED offPage

\* the file input changes: a file was picked, or the selection was emptied
FileChange ==
    \E picked \in BOOLEAN :
        /\ app' = IF ~picked
                  THEN [app EXCEPT !.files = 0]
                  ELSE checkGenerateButtonState([app EXCEPT !.files = 1])
        /\ UNCHANGED offPage

\* the user clicks Add Tester
AddTester ==
    /\ app.testers < MaxTesters
    /\ app' = checkGenerateButtonState([app EXCEPT !.testers = @ + 1])
    /\ UNCHANGED offPage

\* the user removes a tester from the list
RemoveTester ==
    /\ app.testers > 0
    /\ app' = checkGenerateButtonState([app EXCEPT !.testers = @ - 1])
    /\ UNCHANGED offPage

\* the page is loaded again in the same tab
Reload ==
    /\ app' = DOMContentLoaded(app.storage)
    /\ UNCHANGED offPage

AppNext ==
    ProviderChange \/ KeyInput \/ SaveKey \/ FileChange \/ AddTester \/ RemoveTester
        \/ Reload

AppSpec == AppInit /\ [][AppNext]_vars

\* the option sets of Spec, each also with an onComplete that starts the next
\* stream on the same instance
ChainOptionSets == OptionSets \cup {[o EXCEPT !.onComplete = "reset"] : o \in OptionSets}

ChainInit ==
    /\ options \in ChainOptionSets
    /\ Construct
    /\ Alone
    /\ twin = Fresh
    /\ sanIn = NoText
    /\ sanOut = NoText

ChainSpec == ChainInit /\ [][Next]_vars

\* the renderer constructed with callbacks that call back into it or fail
HookInit ==
    /\ options \in HookOptionSets
    /\ Construct
    /\ Alone
    /\ twin = Fresh
    /\ sanIn = NoText
    /\ sanOut = NoText

HookSpec == HookInit /\ [][Next]_vars

\* the browser runs every frame callback that stays scheduled
LiveSpec == Init /\ [][Next]_vars /\ WF_vars(Frame)

----------------------------------------------------------------------------
(* Properties *)

\* the presentation states of the renderer
Active == ~isFinished
Sealed == isFinished /\ pending # {}
Terminated == isFinished /\ pending = {}

\* the display surface shows `text`: as it is in the text node or in the
\* plain-text fallback, as the parser's markup otherwise
Shows(c, text) ==
    c.text = IF c.kind = "html" THEN markdownParser(text) ELSE text

\* C1: while neither finish() nor destroy() has been called in the lifecycle,
\* getCurrentText() is the concatenation, in call order, of the chunks passed
\* to appendChunk so far, whatever frames ran in between.
C1_BufferIsConcatenation ==
    (~finishCalled /\ ~destroyCalled) => getCurrentText(Self) = appended

\* several chunks appended, with a frame between them, and one not yet shown
C1_Witness ==
    /\ op = "appendChunk" /\ ~finishCalled /\ ~destroyCalled
    /\ Len(appended) > MaxChunk
    /\ lastRenderedText # <<>> /\ lastRenderedText # textBuffer
    /\ \E i, j \in 1..Len(appended) : appended[i] # appended[j]

\* C2: onComplete is called at most once per lifecycle, only after finish()
\* was called in it, with the sanitizer applied once to the concatenation of
\* the lifecycle's chunks; destroy() does not call it and nothing calls it
\* once destroy() has been called.
C2_Inv ==
    /\ nComplete <= 1
    /\ nComplete = 1 => finishCalled /\ completeArg = sanitize(appended)
    /\ Of(fx, "onComplete") # <<>> => op = "frame"

C2_DestroyStep ==
    (op' = "destroy" \/ destroyCalled') => nComplete' = IF op' = "reset" THEN 0 ELSE nComplete

C3_Completed ==
    /\ Terminated /\ rafId = Null
    /\ nComplete = 1
    /\ Shows(container, textBuffer)

state == <<textBuffer, lastRenderedText, rafId, isFinished, textNode, container, pending>>

\* C5: a frame that follows one or more appendChunk calls on an Active
\* renderer, at least one of them with a non-empty chunk, renders exactly once
\* and calls onUpdate exactly once, both with the whole buffer, which holds
\* every chunk of the burst.
C5_Step ==
    (op' = "frame" /\ ~finishCalled /\ ~destroyCalled /\ burst # <<>>) =>
        LET r == Of(fx', "render")
            u == Of(fx', "onUpdate")
        IN  /\ Len(r) = 1 /\ Len(u) = 1
            /\ r[1].text = appended /\ Shows(r[1].shown, appended)
            /\ u[1].text = appended
            /\ Shows(container', appended)

C5_FrameCoalescing == [][C5_Step]_vars

\* a frame, after an earlier one that rendered, shows more new text than one
\* chunk can hold
C5_Witness ==
    /\ op = "frame" /\ ~finishCalled /\ ~destroyCalled
    /\ Len(Of(fx, "render")) = 1 /\ Len(Of(fx, "onUpdate")) = 1
    /\ fx[1].snap # <<>>
    /\ Len(textBuffer) - Len(fx[1].snap) > MaxChunk

\* C6: the frame that follows finish() renders the sanitized text, also when
\* the buffer equals lastRenderedText at that frame, and once the renderer has
\* completed the display surface shows the sanitized final text.
C6_Step ==
    (op' = "frame" /\ finishCalled /\ ~destroyCalled /\ nComplete = 0) =>
        LET r == Of(fx', "render")
        IN  /\ Len(r) >= 1
            /\ r[Len(r)].text = sanitize(appended)
            /\ Shows(container', sanitize(appended))

C6_TerminalRender ==
    [][C6_Step]_vars /\ [](nComplete = 1 => Shows(container, textBuffer))

\* the terminal frame found the buffer equal to lastRenderedText and rendered
C6_Witness ==
    /\ op = "frame" /\ nComplete = 1 /\ finishCalled
    /\ Of(fx, "onUpdate") = <<>> /\ Len(Of(fx, "render")) = 1
    /\ textBuffer # <<>>

\* C7: appendChunk after finish() changes neither the buffer nor any other
\* field, and does nothing but warn.
C7_Step ==
    (op' = "appendChunk" /\ finishCalled) =>
        /\ UNCHANGED state
        /\ Len(fx') = 1 /\ fx'[1].e = "warn"

C7_NoLateMutation == [][C7_Step]_vars

\* a chunk arrived while the terminal frame was still scheduled
C7_Witness ==
    /\ op = "appendChunk" /\ finishCalled /\ ~destroyCalled
    /\ Sealed /\ Len(fx) = 1 /\ textBuffer # <<>>

\* C8: a second finish() changes nothing and does not call the sanitizer
\* again, so the sealed text is the sanitizer applied once and onComplete is
\* called at most once.
C8_Step ==
    (op' = "finish" /\ finishCalled) => UNCHANGED state /\ fx' = <<>>

C8_Inv ==
    /\ nSanitize <= 1 /\ nComplete <= 1
    /\ nSanitize = 1 => textBuffer = sanitize(appended)

C8_IdempotentFinish == [][C8_Step]_vars /\ []C8_Inv

\* finish() called again after completion, with a sanitizer that would
\* shorten the text once more
C8_Witness ==
    /\ op = "finish" /\ fx = <<>> /\ nSanitize = 1 /\ nComplete = 1
    /\ options.sanitize = "chop" /\ textBuffer # <<>>

\* C9: the sanitizer is called by finish() only, once per lifecycle; while the
\* renderer is Active neither appendChunk nor a frame sanitizes the buffer, so
\* a trailing separator stays in the unsealed text.
C9_SanitizeOnlyAtFinish ==
    /\ Of(fx, "sanitize") # <<>> => op = "finish" /\ Len(Of(fx, "sanitize")) = 1
    /\ nSanitize <= 1
    /\ ~finishCalled => nSanitize = 0
    /\ (finishCalled /\ ~destroyCalled) => nSanitize = 1
    /\ (~finishCalled /\ ~destroyCalled) => textBuffer = appended

\* the unsealed text ends in a separator built from several chunks, and a
\* frame has shown it
C9_Witness ==
    /\ ~finishCalled /\ ~destroyCalled /\ op = "frame"
    /\ options.sanitize = "default"
    /\ textBuffer = <<LF, "-", "-", "-">>
    /\ lastRenderedText = textBuffer
    /\ defaultSanitize(textBuffer) = <<>>

\* C10: onUpdate is called at most once per frame and by frames only, only
\* when the buffer differed from lastRenderedText, after the render and the
\* snapshot update of that frame, with the current buffer.
C10_Step ==
    LET u == Of(fx', "onUpdate")
    IN  u # <<>> =>
            /\ op' = "frame" /\ Len(u) = 1
            /\ textBuffer # lastRenderedText
            /\ u[1].text = textBuffer'
            /\ u[1].snap = textBuffer' /\ Shows(u[1].shown, textBuffer')
            /\ fx'[1].e = "render" /\ fx'[2].e = "onUpdate"

C10_OnUpdatePerFrame == [][C10_Step]_vars

\* a frame of an Active renderer called onUpdate
C10_Witness ==
    /\ op = "frame" /\ ~isFinished
    /\ Len(Of(fx, "onUpdate")) = 1 /\ Len(textBuffer) >= 2

\* C11: in MarkedUp mode a frame whose buffer makes the parser fail shows the
\* buffer as plain text, and goes on as after a successful render: the
\* snapshot is updated, onUpdate is called with the buffer, and while Active
\* the next frame is scheduled.
C11_Step ==
    (op' = "frame" /\ ~options.useTextNode /\ markdownParserThrows(textBuffer)) =>
        /\ container'.kind = "text" /\ container'.text = textBuffer
        /\ lastRenderedText' = textBuffer
        /\ textBuffer # lastRenderedText =>
               /\ Len(Of(fx', "onUpdate")) = 1
               /\ Of(fx', "onUpdate")[1].text = textBuffer
               /\ Of(fx', "render")[1].shown.kind = "text"
        /\ ~isFinished => rafId' \in pending' /\ ~isFinished'
        /\ isFinished => Len(Of(fx', "onComplete")) = 1

C11_ParserFailureFallback == [][C11_Step]_vars

\* a frame of an Active renderer replaced markup shown earlier by the plain
\* text of a buffer the parser fails on
C11_Witness ==
    /\ op = "frame" /\ ~options.useTextNode /\ ~isFinished
    /\ markdownParserThrows(textBuffer)
    /\ container.kind = "text" /\ container.text = textBuffer
    /\ Len(fx) = 2 /\ fx[1].snap # <<>> /\ fx[2].e = "onUpdate"
    /\ rafId \in pending

\* what a caller can observe of an instance: frame ids and node identities
\* count only through whether a frame is scheduled and whether the text node
\* is the one under the container
Observed(s) ==
    [textBuffer |-> s.textBuffer, lastRenderedText |-> s.lastRenderedText,
     isFinished |-> s.isFinished,
     scheduled |-> s.rafId # Null /\ s.rafId \in s.pending,
     frames |-> Cardinality(s.pending),
     hasNode |-> s.textNode # Null,
     attached |-> s.textNode # Null /\ s.container.node = s.textNode,
     kind |-> s.container.kind, text |-> s.container.text,
     contain |-> s.container.contain, willChange |-> s.container.willChange,
     calls |-> [i \in 1..Len(s.fx) |->
                  [e |-> s.fx[i].e, text |-> s.fx[i].text, snap |-> s.fx[i].snap,
                   kind |-> s.fx[i].shown.kind, shown |-> s.fx[i].shown.text]]]

\* C12: reset() from any state leaves an empty buffer, an empty snapshot and
\* an Active instance with its loop running, and from then on every sequence
\* of appendChunk/finish/frames gives the buffer, renders, onUpdate calls and
\* onComplete call that it gives on a freshly constructed instance.
C12_ResetIsolation ==
    /\ op = "reset" =>
           /\ getCurrentText(Self) = <<>> /\ lastRenderedText = <<>>
           /\ Active /\ rafId \in pending
    /\ Observed([Self EXCEPT !.fx = fx]) = Observed(twin)

\* after a reset of an instance that was in use (its text node is not the
\* first one), a whole append/finish/frame cycle has run
C12_Witness ==
    /\ options.useTextNode /\ textNode # twin.textNode
    /\ op = "frame" /\ Terminated
    /\ Of(fx, "onComplete") # <<>> /\ textBuffer # <<>>

\* C13: appendChunk and finish after destroy() are no-ops: the buffer and
\* every other field stay as they were, the sanitizer is not called, no frame
\* is scheduled, nothing is rendered and no callback is called.
C13_Step ==
    (destroyCalled /\ op' \in {"appendChunk", "finish"}) =>
        /\ UNCHANGED state
        /\ pending' = {} /\ rafId' = Null
        /\ Of(fx', "sanitize") = <<>> /\ Of(fx', "render") = <<>>
        /\ Of(fx', "onUpdate") = <<>> /\ Of(fx', "onComplete") = <<>>

C13_NoOpAfterDestroy == [][C13_Step]_vars

\* appendChunk was called on a destroyed renderer that had text in the
\* buffer: it warned and returned
C13_Witness ==
    /\ destroyCalled /\ op = "appendChunk" /\ textBuffer # <<>>
    /\ Of(fx, "warn") # <<>> /\ rafId = Null

\* C14: once destroy() has returned or cleanup() has run, no frame callback
\* of the renderer is scheduled (rafId is null, nothing is pending), and the
\* display surface is not rendered again until reset().
C14_Step ==
    ((destroyCalled \/ nComplete >= 1) /\ op' # "reset") =>
        /\ Of(fx', "render") = <<>>
        /\ container' = container

C14_Inv == (destroyCalled \/ nComplete >= 1) => rafId = Null /\ pending = {}

C15_Step ==
    (options.useTextNode /\ op' # "reset") =>
        /\ container.kind = "textNode"
        /\ container'.kind = "textNode" /\ container'.node = container.node
        /\ ~destroyCalled' => textNode' = textNode /\ textNode = container.node
        /\ \A i \in 1..Len(fx') :
               fx'[i].e = "render" =>
                   /\ fx'[i].shown.kind = "textNode"
                   /\ fx'[i].shown.node = container.node
                   /\ fx'[i].shown.text = fx'[i].text

St(finished, frames) ==
    IF ~finished THEN "Active" ELSE IF frames # {} THEN "Sealed" ELSE "Terminated"

\* C16: the presentation state moves only along the specified transitions:
\* Active to Sealed only by finish(); Sealed to Terminated only by the frame
\* that completes the terminal render, or by destroy(); any state to
\* Terminated by destroy(); back to Active only by reset().
C16_Step ==
    LET a == St(isFinished, pending)
        b == St(isFinished', pending')
    IN  /\ (a = "Active" /\ b = "Sealed") => op' = "finish"
        /\ (a = "Active" /\ b = "Terminated") => op' = "destroy"
        /\ (a = "Sealed" /\ b = "Terminated") =>
               \/ op' = "destroy"
               \/ /\ op' = "frame"
                  /\ Of(fx', "render") # <<>>
                  /\ fx'[Len(fx')].e = "onComplete"
        /\ (a = "Terminated" /\ b = "Sealed") => FALSE
        /\ (a # "Active" /\ b = "Active") => op' = "reset"
        /\ (a = "Active" /\ op' = "finish") => b = "Sealed"
        /\ (a = "Sealed" /\ op' = "frame") => b = "Terminated"
        /\ op' = "destroy" => b = "Terminated"
        /\ op' = "reset" => b = "Active"

C16_StateTransitions == [][C16_Step]_vars

\* a renderer that went Active, Sealed, Terminated through finish() and the
\* terminal frame was then handed another chunk and stayed Terminated
C16_Witness ==
    /\ op = "appendChunk" /\ Terminated
    /\ finishCalled /\ ~destroyCalled /\ nComplete = 1 /\ appended # <<>>

\* C17: appendChunk and finish never touch the display surface: the
\* container, the text node and lastRenderedText are unchanged by either
\* call and no onUpdate/onComplete is called inside them; the display changes
\* only inside a frame callback or in the initialization done by reset().
C17_Step ==
    /\ op' \in {"appendChunk", "finish"} =>
           /\ UNCHANGED <<container, textNode, lastRenderedText>>
           /\ Of(fx', "render") = <<>>
           /\ Of(fx', "onUpdate") = <<>> /\ Of(fx', "onComplete") = <<>>
    /\ container' # container => op' \in {"frame", "reset"}

C17_NoSynchronousRender == [][C17_Step]_vars

\* finish() sanitized a buffer that the display does not show yet
C17_Witness ==
    /\ op = "finish" /\ Of(fx, "sanitize") # <<>>
    /\ textBuffer # <<>> /\ lastRenderedText = <<>> /\ container.text = <<>>

\* C18: getCurrentText() returns the current buffer in every state and
\* leaves the buffer, lastRenderedText, the state flag, the scheduled frame
\* and the display surface unchanged, and calls nothing.
C18_Step ==
    op' = "getCurrentText" =>
        /\ returned' = textBuffer
        /\ UNCHANGED state
        /\ fx' = <<>>

C18_PureAccessor == [][C18_Step]_vars

\* getCurrentText() on a destroyed renderer returned a buffer that was never
\* fully rendered
C18_Witness ==
    /\ op = "getCurrentText" /\ destroyCalled
    /\ returned # <<>> /\ returned # lastRenderedText /\ returned = textBuffer

\* text from position i to its end matches [\r\n]*[-=]{3,}[\r\n]*$: the run
\* of rule characters with the line breaks before it optional
C19_ClaimedMatchesAt(text, i) ==
    LET a == Run(text, i, LineBreaks)
        b == Run(text, i + a, Rules)
        c == Run(text, i + a + b, LineBreaks)
    IN  b >= 3 /\ i + a + b + c = Len(text) + 1

\* the sanitizer as the claim describes it
C19_ClaimedSanitize(text) ==
    LET starts == {i \in 1..Len(text) : C19_ClaimedMatchesAt(text, i)}
        first == CHOOSE i \in starts : \A j \in starts : i <= j
    IN  trim(IF starts = {} THEN text ELSE Take(text, first - 1))

\* C19: for every text the default sanitizer strips a trailing run of three
\* or more "-" or "=" whether or not a line break precedes it and whether or
\* not line breaks follow it, and trims surrounding whitespace; "A", line
\* break, "---", line break gives "A".
C19_DefaultSanitizerStripsRun ==
    sanOut # NoText =>
        /\ sanOut = C19_ClaimedSanitize(sanIn)
        /\ sanIn = <<"A", LF, "-", "-", "-", LF>> => sanOut = <<"A">>

\* C20: when finish() is called in the same frame interval as appendChunk
\* calls that changed the buffer, the terminal frame that follows performs
\* exactly one render of the display surface.
C20_Step ==
    (op' = "frame" /\ burst # <<>> /\ finishCalled /\ ~destroyCalled) =>
        Len(Of(fx', "render")) = 1

C20_OneRenderInTerminalFrame == [][C20_Step]_vars

\* C21: destroy() called from inside onUpdate is an external teardown like
\* any other: within that frame and afterwards, nothing is rendered and
\* onComplete is not called once destroy() has returned.
C21_DestroyInsideOnUpdate ==
    /\ \A i, j \in 1..Len(fx) :
           (i < j /\ fx[i].e = "destroy") => fx[j].e \notin {"render", "onComplete"}
    /\ (destroyCalled /\ Of(fx, "destroy") = <<>>) =>
           Of(fx, "render") = <<>> /\ Of(fx, "onComplete") = <<>>

\* C22: at any time at most one frame callback is scheduled and rafId
\* identifies it, also when reset() is called from inside onUpdate or
\* onComplete.
C22_OneScheduledFrame ==
    /\ Cardinality(pending) <= 1
    /\ pending # {} => pending = {rafId}

\* C23: whenever the renderer is Active the loop is running: between frames
\* exactly one frame callback is scheduled (the one rafId names), and every
\* frame that ends in Active has scheduled its successor; once Terminated,
\* by the terminal frame or by destroy(), no frame callback is scheduled.
C23_Inv ==
    /\ Active => rafId # Null /\ pending = {rafId}
    /\ (isFinished /\ (destroyCalled \/ nComplete >= 1)) => pending = {}

C23_Step == (op' = "frame" /\ ~isFinished') => pending' = {rafId'}

IsPrefix(a, b) == Len(a) <= Len(b) /\ Take(b, Len(a)) = a

\* C24: no dropped or reordered text: before finish() the text last rendered
\* is a prefix of the buffer, every render shows the whole buffer as it is
\* when the frame fires, and each rendered text extends the one before it.
C24_Inv == ~finishCalled => IsPrefix(lastRenderedText, textBuffer)

C24_Step ==
    (op' = "frame" /\ ~finishCalled) =>
        \A i \in 1..Len(fx') :
            fx'[i].e = "render" =>
                /\ fx'[i].text = textBuffer
                /\ Shows(fx'[i].shown, textBuffer)
                /\ fx'[i].snap = lastRenderedText
                /\ IsPrefix(lastRenderedText, fx'[i].text)
                /\ lastRenderedText' = fx'[i].text

C24_PrefixConsistentRenders == []C24_Inv /\ [][C24_Step]_vars

\* a frame before finish() rendered a buffer that extends an earlier,
\* non-empty render by two characters or more
C24_Witness ==
    /\ op = "frame" /\ ~finishCalled /\ Of(fx, "render") # <<>>
    /\ Of(fx, "render")[1].snap # <<>>
    /\ Len(lastRenderedText) >= Len(Of(fx, "render")[1].snap) + 2
    /\ Shows(container, textBuffer)

\* C25: between frame callbacks lastRenderedText is the text the display
\* surface was last rendered from (empty after construction or reset()),
\* also after the terminal frame and after destroy().
C25_SnapshotMatchesDisplay ==
    /\ Shows(container, lastRenderedText)
    /\ op \in {"constructor", "reset"} => lastRenderedText = <<>> /\ container.text = <<>>

\* the terminal frame has rendered a text that sanitization had shortened
C25_Witness ==
    /\ op = "frame" /\ nComplete = 1 /\ ~destroyCalled
    /\ lastRenderedText # <<>> /\ lastRenderedText # appended
    /\ container.text # <<>>

\* C26: while Active the buffer never gets shorter; finish() changes it
\* once, to the sanitizer's result; from then on, Sealed or Terminated, it
\* never changes until reset().
C26_Step ==
    /\ (Active /\ op' \notin {"reset", "finish"}) => IsPrefix(textBuffer, textBuffer')
    /\ (Active /\ op' = "finish") =>
           /\ textBuffer' = sanitize(textBuffer)
           /\ Len(Of(fx', "sanitize")) = 1
    /\ (~Active /\ op' # "reset") => textBuffer' = textBuffer

C26_BufferDiscipline == [][C26_Step]_vars

\* the buffer that finish() shortened is still the same after the terminal
\* frame and a later appendChunk and destroy()
C26_Witness ==
    /\ op = "destroy" /\ finishCalled /\ nComplete = 1 /\ nSanitize = 1
    /\ textBuffer # <<>> /\ Len(textBuffer) < Len(appended)
    /\ completeArg = textBuffer

\* C27: on entry to Terminated through the terminal frame, cleanup stops the
\* loop, calls onComplete with the buffer, and releases the text node
\* reference (textNode becomes null).
C27_Step ==
    (op' = "frame" /\ Of(fx', "onComplete") # <<>>) =>
        /\ pending' = {} /\ rafId' = Null
        /\ Of(fx', "onComplete")[1].text = textBuffer'
        /\ textNode' = Null

C27_CleanupReleasesNode == [][C27_Step]_vars

\* C28: a renderer constructed in PlainText mode performs every render, in
\* every reachable state, by setting the text of its text node, never by the
\* markup path that writes the container's innerHTML.
C28_PlainTextModeIsFixed ==
    options.useTextNode =>
        /\ container.kind = "textNode"
        /\ \A i \in 1..Len(fx) : fx[i].e = "render" => fx[i].shown.kind = "textNode"

\* C29: an onUpdate callback that throws during a frame does not halt the
\* loop: while the renderer is Active the next frame is still scheduled.
C29_ThrowingOnUpdateKeepsLoop ==
    (op = "frame" /\ Of(fx, "throw") # <<>> /\ Active) => rafId \in pending

\* C30: a finish() whose sanitizer throws leaves the renderer as it was:
\* still Active, the buffer intact, every other field unchanged.
C30_Step ==
    (op' = "finish" /\ Of(fx', "throw") # <<>>) =>
        /\ UNCHANGED state
        /\ Active'

C30_FailedSanitizeChangesNothing == [][C30_Step]_vars

\* C31: construction clears the display surface, creates the one text node
\* in PlainText mode and schedules the first frame; nothing is rendered and
\* no callback is called before the first frame callback runs, and that frame
\* shows every chunk appended before it.
C31_Inv ==
    /\ op = "constructor" =>
           /\ container.text = <<>>
           /\ container.kind = IF options.useTextNode THEN "textNode" ELSE "empty"
           /\ options.useTextNode => textNode # Null /\ container.node = textNode
           /\ ~options.useTextNode => textNode = Null
           /\ rafId # Null /\ pending = {rafId}
           /\ fx = <<>>
    /\ ~framed =>
           /\ lastRenderedText = <<>> /\ container.text = <<>>
           /\ Of(fx, "render") = <<>> /\ Of(fx, "onUpdate") = <<>>
           /\ Of(fx, "onComplete") = <<>> /\ nComplete = 0

C31_Step ==
    (~framed /\ op' = "frame" /\ ~finishCalled) =>
        /\ textBuffer = appended
        /\ Shows(container', appended)
        /\ lastRenderedText' = appended

C31_Construction == []C31_Inv /\ [][C31_Step]_vars

\* the first frame after construction showed three chunks appended before it
C31_Witness ==
    /\ op = "frame" /\ framed /\ Len(appended) >= 3 /\ ~finishCalled
    /\ Len(Of(fx, "render")) = 1 /\ Of(fx, "render")[1].snap = <<>>
    /\ Shows(container, appended)

\* C32: within a lifecycle every onUpdate call precedes the onComplete call,
\* the terminal render precedes onComplete, and when onComplete is called the
\* display surface shows the sanitized final text and no frame callback is
\* scheduled, so that an onComplete that calls reset() leaves exactly one
\* loop running.
C32_Step ==
    /\ \A k \in 1..Len(fx') :
           fx'[k].e = "onComplete" =>
               /\ finishCalled /\ fx'[k].text = textBuffer
               /\ \A i \in 1..Len(fx') : fx'[i].e = "onUpdate" => i < k
               /\ k > 1 /\ fx'[k - 1].e = "render" /\ fx'[k - 1].text = fx'[k].text
               /\ Shows(fx'[k].shown, fx'[k].text)
               /\ fx'[k].scheduled = 0
               /\ \A i \in 1..Len(fx') : fx'[i].e = "render" => i < k
               /\ IF options.onComplete = "reset"
                  THEN Active' /\ rafId' # Null /\ pending' = {rafId'}
                  ELSE isFinished' /\ rafId' = Null /\ pending' = {}
    /\ (nComplete >= 1 /\ Of(fx', "reset") = <<>> /\ op' # "reset") =>
           Of(fx', "onUpdate") = <<>> /\ Of(fx', "onComplete") = <<>>

C32_OrderingAtCompletion == [][C32_Step]_vars

\* an onComplete that called reset() ended a stream whose last chunks were
\* rendered, reported by onUpdate and rendered again in the terminal frame;
\* one frame is scheduled for the next stream
C32_Witness ==
    /\ options.onComplete = "reset" /\ op = "frame"
    /\ Len(fx) = 5 /\ fx[2].e = "onUpdate" /\ fx[4].e = "onComplete" /\ fx[5].e = "reset"
    /\ fx[4].text # <<>>
    /\ Active /\ pending = {rafId} /\ textBuffer = <<>>

\* C33: reset() or destroy() called in Sealed cancels the pending terminal
\* frame: the terminal render of the sealed stream never happens and its
\* text is never passed to onComplete; after reset() only the text of the new
\* lifecycle can reach onComplete.
C33_Step ==
    /\ (Sealed /\ op' = "destroy") =>
           /\ pending' = {} /\ rafId' = Null
           /\ Of(fx', "render") = <<>> /\ Of(fx', "onComplete") = <<>>
           /\ nComplete' = 0
    /\ (Sealed /\ op' = "reset") =>
           /\ Cardinality(pending') = 1 /\ pending' = {rafId'}
           /\ Active' /\ textBuffer' = <<>> /\ container'.text = <<>>
           /\ Of(fx', "render") = <<>> /\ Of(fx', "onComplete") = <<>>
           /\ nComplete' = 0
    /\ (destroyCalled /\ op' # "reset") =>
           /\ nComplete' = nComplete
           /\ Of(fx', "render") = <<>>
    /\ \A k \in 1..Len(fx') :
           fx'[k].e = "onComplete" =>
               /\ finishCalled /\ ~destroyCalled
               /\ fx'[k].text = sanitize(appended)

C33_Inv == (destroyCalled /\ finishCalled /\ nComplete = 0) => pending = {}

C33_SealedStreamAbandoned == []C33_Inv /\ [][C33_Step]_vars

\* a stream with text was reset while Sealed; the stream that followed was
\* finished, and its text alone was passed to onComplete
C33_Witness ==
    /\ op = "frame" /\ nComplete = 1
    /\ abandoned
    /\ completeArg # <<>>
    /\ completeArg = sanitize(appended)

\* C34: chunking and timing independence: a run that appended the overall text
\* `appended`, however it was split into chunks and whatever frames ran in
\* between, and then called finish(), ends with getCurrentText(), the
\* onComplete argument and the displayed text all equal to one function of
\* `appended` alone; once finish() has sealed the buffer no later frame or
\* call changes that outcome.
C34_Outcome == sanitize(appended)

C34_ChunkingIndependence ==
    /\ (nSanitize = 1 /\ ~destroyCalled) => getCurrentText(Self) = C34_Outcome
    /\ (nComplete >= 1 /\ ~destroyCalled) =>
           /\ nComplete = 1
           /\ completeArg = C34_Outcome
           /\ Shows(container, C34_Outcome)

\* the terminal frame of a stream delivered in chunks of unequal length, part
\* of which an earlier frame had shown before the sanitizer changed it
C34_Witness ==
    /\ op = "frame" /\ nComplete = 1 /\ ~destroyCalled
    /\ Len(appended) = MaxLen
    /\ Of(fx, "render") # <<>>
    /\ Of(fx, "render")[1].snap # <<>>
    /\ Of(fx, "render")[1].snap # completeArg
    /\ completeArg # <<>> /\ completeArg # appended

\* text has, from position i, a run of three or more "-" or "=" that is
\* followed by a character other than a line break
C35_InnerRun(text, i) ==
    LET b == Run(text, i, Rules)
    IN  /\ b >= 3
        /\ i + b <= Len(text)
        /\ text[i + b] \notin LineBreaks

\* C35: the default sanitizer only removes a suffix and surrounding
\* whitespace: its result is the trimmed form of a prefix of the input; a run
\* of three or more "-" or "=" followed by a character other than a line
\* break lies inside that prefix; and the sanitizer applied to its own result
\* returns that result unchanged.
C35_DefaultSanitizerIdempotent ==
    sanOut # NoText =>
        /\ \E n \in 0..Len(sanIn) :
               /\ sanOut = trim(Take(sanIn, n))
               /\ \A i \in 1..Len(sanIn) :
                      C35_InnerRun(sanIn, i) => n >= i + Run(sanIn, i, Rules) - 1
        /\ defaultSanitize(sanOut) = sanOut

\* C35 without its last part: the result is the trimmed form of a prefix that
\* keeps every run followed by a character other than a line break
C35_TrimmedPrefix ==
    sanOut # NoText =>
        \E n \in 0..Len(sanIn) :
            /\ sanOut = trim(Take(sanIn, n))
            /\ \A i \in 1..Len(sanIn) :
                   C35_InnerRun(sanIn, i) => n >= i + Run(sanIn, i, Rules) - 1

\* C36: in the generate handler of the integration example the renderer it
\* created receives finish() exactly once on every path through the handler,
\* the path where every model attempt fails included: never twice, and once
\* by the time the handler has returned.
C36_FinishOnEveryPath ==
    /\ gen.finishes <= 1
    /\ gen.pc = "done" => (gen.finishes = 1 /\ isFinished)

\* C37: in the model-fallback loop the text passed to onComplete consists
\* only of the chunks of the attempt that succeeded; chunks appended during an
\* attempt that failed mid-stream are not part of it.
C37_OnlySuccessfulAttempt ==
    (gen.streamSuccess /\ nComplete >= 1) => completeArg = sanitize(gen.attempt)

\* C38: in the application, after any sequence of provider changes, key
\* edits, save clicks, file selections and tester additions and removals,
\* whenever the Generate button is enabled the in-memory API key is non-empty
\* and passes validateApiKey for the selected provider; a key that Save
\* rejected is not usable.
C38_EnabledImpliesValidKey ==
    ~app.disabled =>
        /\ app.apiKey # <<>>
        /\ validateApiKey(app.apiKey, providers[app.apiProvider])

====
